---- MODULE Spec2Model ----
(***************************************************************************)
(* Model of the certificate controller: CertificateReconciler.Reconcile    *)
(* and its helpers (needsRenewal, generateCertificate,                     *)
(* createOrUpdateSecret, calculateRenewalTime, getRequeueTime,             *)
(* restartDeployments, deploymentUsesSecret) over an object store holding  *)
(* one Certificate, the Secrets and the Deployments.                       *)
(*                                                                         *)
(* Time is counted in minutes: a time.Time is an integer number of minutes *)
(* and a time.Duration is an integer number of minutes, so the integer     *)
(* division of getRequeueTime truncates as Go's does on nanoseconds.       *)
(***************************************************************************)
EXTENDS Integers, Sequences, FiniteSets, TLC

VARIABLES
    now,          \* the wall clock read by time.Now()
    cert,         \* the Certificate object in the store (metadata, spec, status)
    secrets,      \* the Secret objects in the store
    deployments,  \* the Deployment objects in the store, in list order
    attempts,     \* number of generateCertificate calls that drew a serial
    issued,       \* history: the issuance whose status write succeeded last
    ret,          \* what the Reconcile that just returned gave back and which
                  \* writes it made; cleared when the environment moves on
    wake,         \* the scheduler's timer for the certificate's next Reconcile
    probe,        \* inputs and outputs of the last direct call of a helper
    proc          \* concurrent invocations: resourceVersions of the shared
                  \* objects, and each invocation's position and local copies

vars == <<now, cert, secrets, deployments, attempts, issued, ret, wake, probe, proc>>

----------------------------------------------------------------------------
(* Bounds of the model *)

MaxTime == 360
MaxClock == 2
MaxAttempts == 2
MaxRemaining == 301
MaxProbeNow == 2

(* Program constants, in minutes *)

Minute == 1
Hour == 60

certificateFinalizer == "cert.example.com/finalizer"
typeAvailableCert == "Available"
typeReadyCert == "Ready"

----------------------------------------------------------------------------
(* Optional timestamps (pointers to metav1.Time): <<>> is nil, <<t>> is set *)

NilTime == <<>>
At(t) == <<t>>

(* time.ParseDuration on the duration strings the model draws from *)
DurationStrings == {"", "abc", "0s", "-1h", "30m", "1h", "2h", "4h", "6h"}

ParseDuration(s) ==
    CASE s = "0s"  -> [ok |-> TRUE, d |-> 0]
      [] s = "-1h" -> [ok |-> TRUE, d |-> 0 - Hour]
      [] s = "30m" -> [ok |-> TRUE, d |-> 30 * Minute]
      [] s = "1h"  -> [ok |-> TRUE, d |-> Hour]
      [] s = "2h"  -> [ok |-> TRUE, d |-> 2 * Hour]
      [] s = "4h"  -> [ok |-> TRUE, d |-> 4 * Hour]
      [] s = "6h"  -> [ok |-> TRUE, d |-> 6 * Hour]
      [] OTHER     -> [ok |-> FALSE, d |-> 0]

(* fmt.Sprintf("%x", n) for n >= 0 *)
HexDigits == <<"0", "1", "2", "3", "4", "5", "6", "7", "8", "9",
               "a", "b", "c", "d", "e", "f">>

RECURSIVE Hex(_)
Hex(n) == IF n < 16 THEN HexDigits[n + 1]
          ELSE Hex(n \div 16) \o HexDigits[(n % 16) + 1]

----------------------------------------------------------------------------
(* Renewal policy *)

needsRenewal(c, t) ==
    IF c.status.renewalTime = NilTime THEN TRUE
    ELSE t > c.status.renewalTime[1]

calculateRenewalTime(c, notAfter) ==
    LET parsed == ParseDuration(c.spec.renewBefore)
        renewBefore == IF c.spec.renewBefore # "" /\ parsed.ok
                       THEN parsed.d
                       ELSE 30 * 24 * Hour
    IN  At(notAfter - renewBefore)

getRequeueTimeInclusiveHour(c, t) ==
    IF c.status.renewalTime = NilTime THEN Minute
    ELSE LET timeUntilRenewal == c.status.renewalTime[1] - t
         IN  IF timeUntilRenewal < 0 THEN Minute
             ELSE IF timeUntilRenewal <= Hour THEN timeUntilRenewal \div 2
             ELSE timeUntilRenewal - Hour

getRequeueTime(c, t) ==
    IF c.status.renewalTime = NilTime THEN Minute
    ELSE LET timeUntilRenewal == c.status.renewalTime[1] - t
         IN  IF timeUntilRenewal < 0 THEN Minute
             ELSE IF timeUntilRenewal < Hour THEN timeUntilRenewal \div 2
             ELSE timeUntilRenewal - Hour

----------------------------------------------------------------------------
(* Status conditions: meta.SetStatusCondition replaces the condition of the
   same type, or appends it.  Message and LastTransitionTime are left out. *)

Condition(type, status, reason) ==
    [type |-> type, status |-> status, reason |-> reason]

SetStatusCondition(conditions, newCondition) ==
    IF \E i \in DOMAIN conditions : conditions[i].type = newCondition.type
    THEN [i \in DOMAIN conditions |->
             IF conditions[i].type = newCondition.type
             THEN newCondition ELSE conditions[i]]
    ELSE Append(conditions, newCondition)

(* controllerutil.ContainsFinalizer / AddFinalizer / RemoveFinalizer on the
   finalizer list of the object *)

ContainsFinalizer(c, finalizer) ==
    \E i \in DOMAIN c.finalizers : c.finalizers[i] = finalizer

AddFinalizer(c, finalizer) ==
    IF ContainsFinalizer(c, finalizer) THEN c
    ELSE [c EXCEPT !.finalizers = Append(@, finalizer)]

RemoveFinalizer(c, finalizer) ==
    [c EXCEPT !.finalizers = SelectSeq(@, LAMBDA x : x # finalizer)]

----------------------------------------------------------------------------
(* Certificate generator.  n is the serial number drawn from rand.Reader
   (a fresh value at every call), entropyFails the failure of rand.Reader. *)

NoError == ""

generateCertificate(c, t, n, entropyFails) ==
    LET parsed   == ParseDuration(c.spec.duration)
        duration == IF c.spec.duration # "" THEN parsed.d ELSE 90 * 24 * Hour
        notBefore == t
        notAfter  == notBefore + duration
        failed(e) == [err |-> e, certPEM |-> <<>>, keyPEM |-> <<>>,
                      notBefore |-> 0, notAfter |-> 0, serialNumber |-> ""]
    IN  IF entropyFails THEN failed("failed to generate private key")
        ELSE IF c.spec.duration # "" /\ ~parsed.ok THEN failed("invalid duration")
        ELSE [err |-> NoError,
              certPEM |-> <<"CERTIFICATE", n, c.spec.commonName, notBefore, notAfter>>,
              keyPEM  |-> <<"RSA PRIVATE KEY", n>>,
              notBefore |-> notBefore,
              notAfter  |-> notAfter,
              serialNumber |-> Hex(n)]

----------------------------------------------------------------------------
(* The Secret store: a set of Secret objects, one per namespace and name.
   Maps (data, labels, annotations) are functions from string keys. *)

EmptyMap == [k \in {} |-> <<>>]

SecretAt(store, namespace, name) ==
    {s \in store : s.namespace = namespace /\ s.name = name}

(* client.Get: <<>> is NotFound *)
GetSecret(store, namespace, name) ==
    LET hits == SecretAt(store, namespace, name)
    IN  IF hits = {} THEN <<>> ELSE <<CHOOSE s \in hits : TRUE>>

(* client.Create: the store refuses a second object of the same name *)
CreateSecret(store, obj) ==
    IF SecretAt(store, obj.namespace, obj.name) # {}
    THEN [err |-> "AlreadyExists", store |-> store]
    ELSE [err |-> NoError, store |-> store \cup {obj}]

(* client.Update: replaces the stored object of the same name *)
UpdateSecret(store, obj) ==
    IF SecretAt(store, obj.namespace, obj.name) = {}
    THEN [err |-> "NotFound", store |-> store]
    ELSE [err |-> NoError,
          store |-> (store \ SecretAt(store, obj.namespace, obj.name)) \cup {obj}]

OwnerReference(c) ==
    [kind |-> "Certificate", name |-> c.name, controller |-> TRUE]

(* ctrl.SetControllerReference: refuses an object another controller owns,
   otherwise sets (or replaces) the owner's reference *)
SetControllerReference(c, obj) ==
    LET refs == obj.ownerReferences
        mine(r) == r.kind = "Certificate" /\ r.name = c.name
    IN  IF \E i \in DOMAIN refs : refs[i].controller /\ ~mine(refs[i])
        THEN [err |-> "AlreadyOwned", obj |-> obj]
        ELSE IF \E i \in DOMAIN refs : mine(refs[i])
        THEN [err |-> NoError,
              obj |-> [obj EXCEPT !.ownerReferences =
                          [i \in DOMAIN refs |->
                              IF mine(refs[i]) THEN OwnerReference(c) ELSE refs[i]]]]
        ELSE [err |-> NoError,
              obj |-> [obj EXCEPT !.ownerReferences = Append(refs, OwnerReference(c))]]

ManagingLabels(c) ==
    [k \in {"app.kubernetes.io/managed-by", "cert.example.com/certificate"} |->
        IF k = "app.kubernetes.io/managed-by" THEN "certificate-operator" ELSE c.name]

TLSData(certPEM, keyPEM) ==
    [k \in {"tls.crt", "tls.key"} |-> IF k = "tls.crt" THEN certPEM ELSE keyPEM]

(* Secret synchronizer.  fails names the store call that fails in this
   invocation: "secretGet", "secretWrite" or neither.  The result is the
   returned error, the store afterwards and the number of write calls. *)

createOrUpdateSecretAppendOwner(store, c, certPEM, keyPEM, fails) ==
    LET secret == [namespace |-> c.namespace, name |-> c.spec.secretName,
                   type |-> "kubernetes.io/tls",
                   data |-> TLSData(certPEM, keyPEM),
                   labels |-> ManagingLabels(c),
                   annotations |-> EmptyMap,
                   ownerReferences |-> <<OwnerReference(c)>>]
        got == GetSecret(store, secret.namespace, secret.name)
    IN  IF fails = "secretGet"
        THEN [err |-> "get secret failed", store |-> store, writes |-> 0]
        ELSE IF got = <<>>
        THEN IF fails = "secretWrite"
             THEN [err |-> "create secret failed", store |-> store, writes |-> 1]
             ELSE LET r == CreateSecret(store, secret)
                  IN  [err |-> r.err, store |-> r.store, writes |-> 1]
        ELSE IF fails = "secretWrite"
             THEN [err |-> "update secret failed", store |-> store, writes |-> 1]
             ELSE LET r == UpdateSecret(store,
                              [got[1] EXCEPT !.data = secret.data,
                                             !.labels = secret.labels,
                                             !.ownerReferences =
                                                 Append(@, OwnerReference(c))])
                  IN  [err |-> r.err, store |-> r.store, writes |-> 1]

createOrUpdateSecret(store, c, certPEM, keyPEM, fails) ==
    LET fresh  == [namespace |-> c.namespace, name |-> c.spec.secretName,
                   type |-> "kubernetes.io/tls",
                   data |-> TLSData(certPEM, keyPEM),
                   labels |-> ManagingLabels(c),
                   annotations |-> EmptyMap,
                   ownerReferences |-> <<>>]
        owned  == SetControllerReference(c, fresh)
        secret == owned.obj
        got    == GetSecret(store, secret.namespace, secret.name)
    IN  IF owned.err # NoError
        THEN [err |-> owned.err, store |-> store, writes |-> 0]
        ELSE IF fails = "secretGet"
        THEN [err |-> "get secret failed", store |-> store, writes |-> 0]
        ELSE IF got = <<>>
        THEN IF fails = "secretWrite"
             THEN [err |-> "create secret failed", store |-> store, writes |-> 1]
             ELSE LET r == CreateSecret(store, secret)
                  IN  [err |-> r.err, store |-> r.store, writes |-> 1]
        ELSE IF fails = "secretWrite"
             THEN [err |-> "update secret failed", store |-> store, writes |-> 1]
             ELSE LET r == UpdateSecret(store,
                              [got[1] EXCEPT !.data = secret.data,
                                             !.labels = secret.labels])
                  IN  [err |-> r.err, store |-> r.store, writes |-> 1]

----------------------------------------------------------------------------
(* Deployments.  A volume is <<>> (not secret-backed) or <<secretName>>; a
   container has envFrom entries, each <<>> (no SecretRef) or <<secretName>>,
   and env entries, each <<>> (no ValueFrom.SecretKeyRef) or <<secretName>>. *)

RestartedAtAnnotation == "cert.example.com/restartedAt"

(* time.Now().Format(time.RFC3339) *)
FormatRFC3339(t) == <<"RFC3339", t>>

MapPut(m, key, value) ==
    [k \in (DOMAIN m) \cup {key} |-> IF k = key THEN value ELSE m[k]]

deploymentUsesSecret(deploy, secretName) ==
    \/ \E v \in DOMAIN deploy.volumes :
          deploy.volumes[v] # <<>> /\ deploy.volumes[v][1] = secretName
    \/ \E c \in DOMAIN deploy.containers :
          \/ \E e \in DOMAIN deploy.containers[c].envFrom :
                /\ deploy.containers[c].envFrom[e] # <<>>
                /\ deploy.containers[c].envFrom[e][1] = secretName
          \/ \E e \in DOMAIN deploy.containers[c].env :
                /\ deploy.containers[c].env[e] # <<>>
                /\ deploy.containers[c].env[e][1] = secretName

(* client.List with client.InNamespace: the positions, in store order, of
   the deployments of the namespace *)
ListDeployments(store, namespace) ==
    SelectSeq([i \in DOMAIN store |-> i], LAMBDA i : store[i].namespace = namespace)

(* The loop of restartDeployments over items[k..]: st carries the store,
   restartedCount and the positions whose Update was called.  failing is the
   set of positions whose Update the store refuses. *)
RECURSIVE restartLoop(_, _, _, _, _, _)
restartLoop(st, items, k, c, t, failing) ==
    IF k > Len(items) THEN st
    ELSE LET i      == items[k]
             deploy == st.store[i]
         IN  IF deploymentUsesSecret(deploy, c.spec.secretName)
             THEN LET marked == [deploy EXCEPT !.annotations =
                                    MapPut(@, RestartedAtAnnotation, FormatRFC3339(t))]
                      called == [st EXCEPT !.called = @ \cup {i}]
                  IN  IF i \in failing
                      THEN restartLoop(called, items, k + 1, c, t, failing)
                      ELSE restartLoop(
                               [called EXCEPT !.store[i] = marked,
                                              !.restartedCount = @ + 1],
                               items, k + 1, c, t, failing)
             ELSE restartLoop(st, items, k + 1, c, t, failing)

(* The same loop with a break in place of the continue *)
RECURSIVE restartLoopBreak(_, _, _, _, _, _)
restartLoopBreak(st, items, k, c, t, failing) ==
    IF k > Len(items) THEN st
    ELSE LET i      == items[k]
             deploy == st.store[i]
         IN  IF deploymentUsesSecret(deploy, c.spec.secretName)
             THEN LET marked == [deploy EXCEPT !.annotations =
                                    MapPut(@, RestartedAtAnnotation, FormatRFC3339(t))]
                      called == [st EXCEPT !.called = @ \cup {i}]
                  IN  IF i \in failing
                      THEN called
                      ELSE restartLoopBreak(
                               [called EXCEPT !.store[i] = marked,
                                              !.restartedCount = @ + 1],
                               items, k + 1, c, t, failing)
             ELSE restartLoopBreak(st, items, k + 1, c, t, failing)

restartDeploymentsBreak(store, c, t, listFails, failing) ==
    IF listFails
    THEN [err |-> "failed to list deployments", store |-> store,
          restartedCount |-> 0, called |-> {}]
    ELSE LET st == restartLoopBreak([store |-> store, restartedCount |-> 0, called |-> {}],
                                    ListDeployments(store, c.namespace), 1, c, t, failing)
         IN  [err |-> NoError, store |-> st.store,
              restartedCount |-> st.restartedCount, called |-> st.called]

(* The same with the namespace of the list left out *)
restartDeploymentsAllNamespaces(store, c, t, listFails, failing) ==
    IF listFails
    THEN [err |-> "failed to list deployments", store |-> store,
          restartedCount |-> 0, called |-> {}]
    ELSE LET st == restartLoop([store |-> store, restartedCount |-> 0, called |-> {}],
                               [i \in DOMAIN store |-> i], 1, c, t, failing)
         IN  [err |-> NoError, store |-> st.store,
              restartedCount |-> st.restartedCount, called |-> st.called]

restartDeployments(store, c, t, listFails, failing) ==
    IF listFails
    THEN [err |-> "failed to list deployments", store |-> store,
          restartedCount |-> 0, called |-> {}]
    ELSE LET st == restartLoop([store |-> store, restartedCount |-> 0, called |-> {}],
                               ListDeployments(store, c.namespace), 1, c, t, failing)
         IN  [err |-> NoError, store |-> st.store,
              restartedCount |-> st.restartedCount, called |-> st.called]

----------------------------------------------------------------------------
(* Reconcile.  An invocation runs at one clock reading t.  f says what the
   environment does to this invocation:
     f.at        the first call that fails: "none", "get", "update" (the first
                 Update of the Certificate), "update2" (the second one),
                 "generate", "secretGet", "secretWrite", "statusWrite"
                 (the Status().Update of the new issuance) or "list";
     f.condWrite whether the Status().Update of a failure condition fails;
     f.deploy    the positions of the deployments whose Update fails. *)

NoCalls == [certUpdate |-> 0, statusUpdate |-> 0, secretWrite |-> 0, deployUpdate |-> 0]

Outcome(path, err, requeueAfter, calls, c, secs, deps, n, gen) ==
    [path |-> path, err |-> err, requeue |-> FALSE, requeueAfter |-> requeueAfter,
     calls |-> calls, cert |-> c, secrets |-> secs, deployments |-> deps,
     attempts |-> n, gen |-> gen, restartRan |-> FALSE, restartErr |-> NoError,
     restartedCount |-> 0, condErr |-> NoError]

(* The Certificate as the store keeps it after an Update of the resource: an
   object under deletion goes away with its last finalizer *)
StoredAfterUpdate(c) ==
    IF c.deleting /\ c.finalizers = <<>> THEN [c EXCEPT !.exists = FALSE] ELSE c

(* The error of a Status().Update the store refuses *)
StatusUpdateError(fails) == IF fails THEN "status update failed" ELSE NoError

(* The same with the serial number of the failed attempt's predecessor dropped *)
FailedStatusClearingSerial(status, reason) ==
    [status EXCEPT !.serialNumber = "",
                   !.conditions =
        SetStatusCondition(@, Condition(typeReadyCert, "False", reason))]

(* Status persisted by the failure paths: the Ready condition alone changes *)
FailedStatus(status, reason) ==
    [status EXCEPT !.conditions =
        SetStatusCondition(@, Condition(typeReadyCert, "False", reason))]

(* Status of a successful issuance (Reconcile, "Update status") *)
IssuedStatusKeepingNotBefore(c, gen, t) ==
    [c.status EXCEPT
        !.notAfter = At(gen.notAfter),
        !.renewalTime = calculateRenewalTime(c, gen.notAfter),
        !.serialNumber = gen.serialNumber,
        !.lastRenewalTime = At(t),
        !.conditions =
            SetStatusCondition(
                SetStatusCondition(@, Condition(typeReadyCert, "True", "CertificateIssued")),
                Condition(typeAvailableCert, "True", "Reconciling"))]

(* The same with the Ready condition left as it was *)
IssuedStatusKeepingReady(c, gen, t) ==
    [c.status EXCEPT
        !.notBefore = At(gen.notBefore),
        !.notAfter = At(gen.notAfter),
        !.renewalTime = calculateRenewalTime(c, gen.notAfter),
        !.serialNumber = gen.serialNumber,
        !.lastRenewalTime = At(t),
        !.conditions =
            SetStatusCondition(@, Condition(typeAvailableCert, "True", "Reconciling"))]

IssuedStatus(c, gen, t) ==
    [c.status EXCEPT
        !.notBefore = At(gen.notBefore),
        !.notAfter = At(gen.notAfter),
        !.renewalTime = calculateRenewalTime(c, gen.notAfter),
        !.serialNumber = gen.serialNumber,
        !.lastRenewalTime = At(t),
        !.conditions =
            SetStatusCondition(
                SetStatusCondition(@, Condition(typeReadyCert, "True", "CertificateIssued")),
                Condition(typeAvailableCert, "True", "Reconciling"))]

(* The same with the new issuance already assigned to the status *)
SecretFailedStatusWithIssuance(c, gen, t) ==
    FailedStatus(IssuedStatus(c, gen, t), "SecretUpdateFailed")

(* Lines 244-254: the status written after a failed secret sync *)
SecretFailedStatus(c, gen, t) ==
    FailedStatus(c.status, "SecretUpdateFailed")

(* The same with the error of restartDeployments returned by Reconcile *)
RestartOutcomeErrorReturned(restart) == restart.err

(* Lines 283-288: the error of restartDeployments is logged, Reconcile goes on *)
RestartOutcomeError(restart) == NoError

(* Lines 222-296: issuance or renewal; c is the object as stored, calls
   the write calls made so far *)
ReconcileRenew(c, secs, deps, n, t, f, calls) ==
    LET gen == generateCertificate(c, t, n + 1, f.at = "generate")
    IN  IF gen.err # NoError
        THEN LET failed == [c EXCEPT !.status = FailedStatus(@, "GenerationFailed")]
             IN  [Outcome("generationFailed", gen.err, 0,
                          [calls EXCEPT !.statusUpdate = @ + 1],
                          IF f.condWrite THEN c ELSE failed, secs, deps, n, <<>>)
                     EXCEPT !.condErr = StatusUpdateError(f.condWrite)]
        ELSE
    LET sync == createOrUpdateSecret(secs, c, gen.certPEM, gen.keyPEM, f.at)
        afterSync == [calls EXCEPT !.secretWrite = @ + sync.writes]
    IN  IF sync.err # NoError
        THEN LET failed == [c EXCEPT !.status = SecretFailedStatus(c, gen, t)]
             IN  [Outcome("secretFailed", sync.err, 0,
                          [afterSync EXCEPT !.statusUpdate = @ + 1],
                          IF f.condWrite THEN c ELSE failed, sync.store, deps, n + 1, <<gen>>)
                     EXCEPT !.condErr = StatusUpdateError(f.condWrite)]
        ELSE
    LET issuedCert == [c EXCEPT !.status = IssuedStatus(c, gen, t)]
        afterStatus == [afterSync EXCEPT !.statusUpdate = @ + 1]
    IN  IF f.at = "statusWrite"
        THEN Outcome("statusFailed", StatusUpdateError(TRUE), 0, afterStatus,
                     c, sync.store, deps, n + 1, <<gen>>)
        ELSE
    LET restart == IF c.spec.restartDeployments
                   THEN restartDeployments(deps, issuedCert, t, f.at = "list", f.deploy)
                   ELSE [err |-> NoError, store |-> deps, restartedCount |-> 0, called |-> {}]
    IN  [Outcome("issued", RestartOutcomeError(restart), getRequeueTime(issuedCert, t),
                 [afterStatus EXCEPT !.deployUpdate = @ + Cardinality(restart.called)],
                 issuedCert, sync.store, restart.store, n + 1, <<gen>>)
            EXCEPT !.restartRan = c.spec.restartDeployments,
                   !.restartErr = restart.err,
                   !.restartedCount = restart.restartedCount]

(* The same with the status written back on every invocation *)
ReconcileActiveTouchingStatus(c, secs, deps, n, t, f, calls) ==
    IF needsRenewal(c, t)
    THEN ReconcileRenew(c, secs, deps, n, t, f, calls)
    ELSE Outcome("upToDate", NoError, getRequeueTime(c, t),
                 [calls EXCEPT !.statusUpdate = @ + 1],
                 [c EXCEPT !.status.lastRenewalTime = At(t)], secs, deps, n, <<>>)

(* Lines 220-301: the certificate is active *)
ReconcileActive(c, secs, deps, n, t, f, calls) ==
    IF needsRenewal(c, t)
    THEN ReconcileRenew(c, secs, deps, n, t, f, calls)
    ELSE Outcome("upToDate", NoError, getRequeueTime(c, t), calls, c, secs, deps, n, <<>>)

(* Lines 201-218: the deletion branch; updatesBefore is the number of Updates
   of the Certificate already made by this invocation *)
ReconcileDeletion(c, secs, deps, n, t, f, calls) ==
    IF ContainsFinalizer(c, certificateFinalizer)
    THEN LET removed == RemoveFinalizer(c, certificateFinalizer)
             after   == [calls EXCEPT !.certUpdate = @ + 1]
             refused == \/ f.at = "update" /\ calls.certUpdate = 0
                        \/ f.at = "update2" /\ calls.certUpdate = 1
         IN  IF refused
             THEN Outcome("finalizerRemovalFailed", "update failed", 0, after,
                          c, secs, deps, n, <<>>)
             ELSE Outcome("finalizerRemoved", NoError, 0, after,
                          StoredAfterUpdate(removed), secs, deps, n, <<>>)
    ELSE Outcome("deleting", NoError, 0, calls, c, secs, deps, n, <<>>)

(* The same without the return that ends the deletion branch *)
ReconcileLoadedFallThrough(c, secs, deps, n, t, f, calls) ==
    IF c.deleting
    THEN LET d == ReconcileDeletion(c, secs, deps, n, t, f, calls)
         IN  IF d.err # NoError THEN d
             ELSE ReconcileActive(d.cert, secs, deps, n, t, f, d.calls)
    ELSE ReconcileActive(c, secs, deps, n, t, f, calls)

(* Lines 201-302 *)
ReconcileLoaded(c, secs, deps, n, t, f, calls) ==
    IF c.deleting
    THEN ReconcileDeletion(c, secs, deps, n, t, f, calls)
    ELSE ReconcileActive(c, secs, deps, n, t, f, calls)

(* Lines 171-302 *)
ReconcileOutcome(c, secs, deps, n, t, f) ==
    IF ~c.exists
    THEN Outcome("notFound", NoError, 0, NoCalls, c, secs, deps, n, <<>>)
    ELSE IF f.at = "get"
    THEN Outcome("getFailed", "get failed", 0, NoCalls, c, secs, deps, n, <<>>)
    ELSE IF ~ContainsFinalizer(c, certificateFinalizer)
    THEN LET added == AddFinalizer(c, certificateFinalizer)
             calls == [NoCalls EXCEPT !.certUpdate = 1]
         IN  IF f.at = "update"
             THEN Outcome("finalizerAddFailed", "update failed", 0, calls,
                          c, secs, deps, n, <<>>)
             ELSE ReconcileLoaded(added, secs, deps, n, t, f, calls)
    ELSE ReconcileLoaded(c, secs, deps, n, t, f, NoCalls)

----------------------------------------------------------------------------
(* Initial objects *)

CertificateObject(duration, renewBefore, restart, finalizers) ==
    [exists |-> TRUE,
     name |-> "certificate-sample",
     namespace |-> "default",
     finalizers |-> finalizers,
     deleting |-> FALSE,
     spec |-> [commonName |-> "example.com",
               secretName |-> "myapp-tls",
               duration |-> duration,
               renewBefore |-> renewBefore,
               restartDeployments |-> restart],
     status |-> [conditions |-> <<>>,
                 notBefore |-> NilTime,
                 notAfter |-> NilTime,
                 renewalTime |-> NilTime,
                 serialNumber |-> "",
                 lastRenewalTime |-> NilTime]]

(* A Secret of the same name that somebody else created *)
ForeignSecret(ownerReferences) ==
    [namespace |-> "default", name |-> "myapp-tls", type |-> "Opaque",
     data |-> [k \in {"password"} |-> <<"opaque">>],
     labels |-> [k \in {"team"} |-> "payments"],
     annotations |-> [k \in {"note"} |-> <<"keep">>],
     ownerReferences |-> ownerReferences]

DeploymentObject(namespace, name, volumes, envFrom, env) ==
    [namespace |-> namespace, name |-> name,
     volumes |-> volumes,
     containers |-> <<[envFrom |-> envFrom, env |-> env]>>,
     annotations |-> EmptyMap]

(* The workloads of the main specification: one of the certificate's
   namespace that mounts the secret, one that does not use it, and one of
   another namespace that mounts a secret of the same name *)
SampleDeployments ==
    << DeploymentObject("default", "web", << <<>>, <<"myapp-tls">> >>, <<>>, <<>>),
       DeploymentObject("default", "batch", <<>>, << <<"other-tls">> >>, << <<>> >>),
       DeploymentObject("other", "web", << <<"myapp-tls">> >>, <<>>, <<>>) >>

(* The five status fields that describe an issuance *)
IssuanceFields(status) ==
    [notBefore |-> status.notBefore, notAfter |-> status.notAfter,
     renewalTime |-> status.renewalTime, serialNumber |-> status.serialNumber,
     lastRenewalTime |-> status.lastRenewalTime]

NoIssuance ==
    [notBefore |-> NilTime, notAfter |-> NilTime, renewalTime |-> NilTime,
     serialNumber |-> "", lastRenewalTime |-> NilTime]

IssuanceOf(c, gen, t) ==
    [notBefore |-> At(gen.notBefore),
     notAfter |-> At(gen.notAfter),
     renewalTime |-> At(gen.notAfter - (IF c.spec.renewBefore \in {"", "abc"}
                                         THEN 720 * Hour
                                         ELSE ParseDuration(c.spec.renewBefore).d)),
     serialNumber |-> gen.serialNumber,
     lastRenewalTime |-> At(t)]

NoReturn == [path |-> "none", err |-> NoError, requeue |-> FALSE, requeueAfter |-> 0,
             calls |-> NoCalls, restartRan |-> FALSE, restartErr |-> NoError,
             restartedCount |-> 0, condErr |-> NoError,
             same |-> [cert |-> TRUE, status |-> TRUE, issuance |-> TRUE, secrets |-> TRUE,
                       deployments |-> TRUE],
             entry |-> [exists |-> FALSE, needsRenewal |-> FALSE, finalizer |-> FALSE,
                        deleting |-> FALSE]]

NoProbe == [op |-> "none"]

NoProc == [secretVersion |-> <<>>, deployVersion |-> <<>>, r |-> <<>>]

FailurePoints == {"none", "get", "update", "update2", "generate",
                  "secretGet", "secretWrite", "statusWrite", "list"}

Failures ==
    [at : {"none"}, condWrite : {FALSE},
     deploy : {{}} \cup {{i} : i \in 1 .. Len(SampleDeployments)}]
    \cup [at : {"get", "update", "update2", "statusWrite", "list"},
          condWrite : {FALSE}, deploy : {{}}]
    \cup [at : {"generate", "secretGet", "secretWrite"},
          condWrite : BOOLEAN, deploy : {{}}]

NoFailure == [at |-> "none", condWrite |-> FALSE, deploy |-> {}]

ClockStep == Hour

InitialCertificates ==
    {CertificateObject(d, "", TRUE, <<>>) : d \in {"", "abc"}}
    \cup {CertificateObject("2h", rb, TRUE, <<>>) : rb \in {"", "0s", "1h", "6h"}}
    \cup {CertificateObject("2h", "1h", restart, fin) :
            restart \in BOOLEAN, fin \in {<<>>, <<"example.com/other">>}}

Init ==
    /\ now = 0
    /\ cert \in InitialCertificates
    /\ secrets \in {{}, {ForeignSecret(<<>>)}}
    /\ deployments = SampleDeployments
    /\ attempts = 0
    /\ issued = NoIssuance
    /\ ret = NoReturn
    /\ wake = NilTime
    /\ probe = NoProbe
    /\ proc = NoProc

----------------------------------------------------------------------------
(* One invocation of Reconcile for the certificate, and what the scheduler
   does with the result: an error is retried at once, a positive
   RequeueAfter sets the timer, anything else forgets the request. *)

Reconcile(f) ==
    LET out == ReconcileOutcome(cert, secrets, deployments, attempts, now, f)
    IN  /\ out.attempts <= MaxAttempts
        /\ cert' = out.cert
        /\ secrets' = out.secrets
        /\ deployments' = out.deployments
        /\ attempts' = out.attempts
        /\ issued' = IF out.path = "issued" THEN IssuanceOf(cert, out.gen[1], now)
                     ELSE issued
        /\ ret' = [path |-> out.path, err |-> out.err, requeue |-> out.requeue,
                   requeueAfter |-> out.requeueAfter, calls |-> out.calls,
                   restartRan |-> out.restartRan, restartErr |-> out.restartErr,
                   restartedCount |-> out.restartedCount, condErr |-> out.condErr,
                   same |-> [cert |-> out.cert = cert,
                             status |-> out.cert.status = cert.status,
                             issuance |-> IssuanceFields(out.cert.status)
                                            = IssuanceFields(cert.status),
                             secrets |-> out.secrets = secrets,
                             deployments |-> out.deployments = deployments],
                   entry |-> [exists |-> cert.exists,
                              needsRenewal |-> cert.exists /\ needsRenewal(cert, now),
                              finalizer |-> ContainsFinalizer(cert, certificateFinalizer),
                              deleting |-> cert.deleting]]
        /\ UNCHANGED <<now, probe, proc>>

ReconcileAny ==
    /\ \E f \in Failures : Reconcile(f)
    /\ UNCHANGED wake

AdvanceClock ==
    /\ now + ClockStep <= MaxClock * ClockStep
    /\ now' = now + ClockStep
    /\ ret' = NoReturn
    /\ UNCHANGED <<cert, secrets, deployments, attempts, issued, wake, probe, proc>>

(* kubectl delete: sets the deletion timestamp; an object without
   finalizers is removed at once *)
RequestDeletion ==
    /\ cert.exists
    /\ ~cert.deleting
    /\ cert' = StoredAfterUpdate([cert EXCEPT !.deleting = TRUE])
    /\ ret' = NoReturn
    /\ UNCHANGED <<now, secrets, deployments, attempts, issued, wake, probe, proc>>

(* Another actor deletes a Secret *)
DeleteSecret ==
    /\ \E s \in secrets : secrets' = secrets \ {s}
    /\ ret' = NoReturn
    /\ UNCHANGED <<now, cert, deployments, attempts, issued, wake, probe, proc>>

Next == ReconcileAny \/ AdvanceClock \/ RequestDeletion \/ DeleteSecret

Spec == Init /\ [][Next]_vars

(* The operator as the only writer of secrets: invocations that fail at any
   call, retries, the clock and deletion requests, and nobody else touching
   the Secret *)
NextResume == ReconcileAny \/ AdvanceClock \/ RequestDeletion

SpecResume == Init /\ [][NextResume]_vars

----------------------------------------------------------------------------
(* The scheduler of the certificate's work queue, without failures: the
   first event is the creation of the Certificate; an error is retried at
   once, a positive RequeueAfter sets the timer, and a result without
   Requeue and RequeueAfter forgets the request.  The clock moves to the
   timer exactly; while no timer is set it moves freely. *)

ParseableDurations == {"", "0s", "30m", "2h", "4h"}

InitSched ==
    /\ now = 0
    /\ cert \in {CertificateObject(d, rb, restart, <<>>) :
                    d \in ParseableDurations,
                    rb \in {"", "abc", "0s", "-1h", "30m", "1h", "2h", "6h"},
                    restart \in BOOLEAN}
    /\ secrets = {}
    /\ deployments = SampleDeployments
    /\ attempts = 0
    /\ issued = NoIssuance
    /\ ret = NoReturn
    /\ wake = At(0)
    /\ probe = NoProbe
    /\ proc = NoProc

SchedReconcile ==
    /\ wake = At(now)
    /\ Reconcile(NoFailure)
    /\ wake' = IF ret'.err # NoError THEN At(now)
               ELSE IF ret'.requeueAfter > 0 THEN At(now + ret'.requeueAfter)
               ELSE NilTime

SchedWait ==
    /\ wake # NilTime
    /\ wake[1] > now
    /\ wake[1] <= MaxTime
    /\ now' = wake[1]
    /\ UNCHANGED <<cert, secrets, deployments, attempts, issued, ret, wake, probe, proc>>

SchedIdle ==
    /\ wake = NilTime
    /\ now < MaxTime
    /\ now' = now + Minute
    /\ UNCHANGED <<cert, secrets, deployments, attempts, issued, ret, wake, probe, proc>>

NextSched == SchedReconcile \/ SchedWait \/ SchedIdle

SpecSched == InitSched /\ [][NextSched]_vars

----------------------------------------------------------------------------
(* The renewal policy called directly: the certificate's recorded renewal
   time and the clock are drawn by the initial state. *)

WithRenewalTime(c, renewalTime) == [c EXCEPT !.status.renewalTime = renewalTime]

InitPolicy ==
    /\ now \in 0 .. MaxProbeNow
    /\ cert \in {WithRenewalTime(CertificateObject("2h", "1h", FALSE, <<certificateFinalizer>>), rt) :
                    rt \in {NilTime} \cup {At(now + r) : r \in (0 - MaxRemaining) .. MaxRemaining}}
    /\ secrets = {}
    /\ deployments = SampleDeployments
    /\ attempts = 0
    /\ issued = NoIssuance
    /\ ret = NoReturn
    /\ wake = NilTime
    /\ probe = NoProbe
    /\ proc = NoProc

CallNeedsRenewal ==
    /\ probe' = [op |-> "needsRenewal", result |-> needsRenewal(cert, now)]
    /\ UNCHANGED <<now, cert, secrets, deployments, attempts, issued, ret, wake, proc>>

CallGetRequeueTime ==
    /\ probe' = [op |-> "getRequeueTime", result |-> getRequeueTime(cert, now)]
    /\ UNCHANGED <<now, cert, secrets, deployments, attempts, issued, ret, wake, proc>>

NextPolicy == CallNeedsRenewal \/ CallGetRequeueTime

SpecPolicy == InitPolicy /\ [][NextPolicy]_vars

----------------------------------------------------------------------------
(* The secret synchronizer called directly: the store is drawn by the
   initial state (no secret of the name, or one that exists already with
   some owner references and labels), the payload by the call. *)

ActiveCertificate(restart) ==
    CertificateObject("2h", "1h", restart, <<certificateFinalizer>>)

PriorOwnerReferences ==
    { <<>>,
      <<[kind |-> "Certificate", name |-> "certificate-sample", controller |-> TRUE]>>,
      <<[kind |-> "Certificate", name |-> "other-certificate", controller |-> TRUE]>>,
      <<[kind |-> "Deployment", name |-> "web", controller |-> FALSE]>> }

SecretElsewhere == [ForeignSecret(<<>>) EXCEPT !.namespace = "other"]

Payload(n) ==
    [certPEM |-> <<"CERTIFICATE", n, "example.com", 0, 2 * Hour>>,
     keyPEM |-> <<"RSA PRIVATE KEY", n>>]

InitSecret ==
    /\ now = 0
    /\ cert = ActiveCertificate(FALSE)
    /\ secrets \in {base \cup extra :
                      base \in {{}} \cup {{ForeignSecret(refs)} : refs \in PriorOwnerReferences},
                      extra \in {{}, {SecretElsewhere}}}
    /\ deployments = SampleDeployments
    /\ attempts = 0
    /\ issued = NoIssuance
    /\ ret = NoReturn
    /\ wake = NilTime
    /\ probe = NoProbe
    /\ proc = NoProc

CallCreateOrUpdateSecret ==
    \E n \in 1 .. MaxAttempts, fails \in {"none", "secretGet", "secretWrite"} :
        LET input == Payload(n)
            r == createOrUpdateSecret(secrets, cert, input.certPEM, input.keyPEM, fails)
        IN  /\ secrets' = r.store
            /\ probe' = [op |-> "createOrUpdateSecret",
                         certPEM |-> input.certPEM,
                         keyPEM |-> input.keyPEM,
                         err |-> r.err,
                         existed |-> SecretAt(secrets, cert.namespace, cert.spec.secretName) # {},
                         storeBefore |-> secrets,
                         repeated |-> /\ probe.op = "createOrUpdateSecret"
                                      /\ probe.err = NoError
                                      /\ probe.certPEM = input.certPEM
                                      /\ probe.keyPEM = input.keyPEM]
            /\ UNCHANGED <<now, cert, deployments, attempts, issued, ret, wake, proc>>

(* Another actor deletes a Secret between two calls *)
SecretDeleted ==
    /\ \E s \in secrets : secrets' = secrets \ {s}
    /\ probe' = NoProbe
    /\ UNCHANGED <<now, cert, deployments, attempts, issued, ret, wake, proc>>

NextSecret == CallCreateOrUpdateSecret \/ SecretDeleted

SpecSecret == InitSecret /\ [][NextSecret]_vars

----------------------------------------------------------------------------
(* The workload correlator called directly: the workloads are drawn by the
   initial state, the failing calls by the call. *)

MaxDeployments == 3

DeploymentShapes ==
    { [volumes |-> << <<>> >>,                 envFrom |-> << <<>> >>,           env |-> << <<>> >>],
      [volumes |-> << <<>>, <<"myapp-tls">> >>, envFrom |-> <<>>,                 env |-> <<>>],
      [volumes |-> << <<"other-tls">> >>,      envFrom |-> <<>>,                 env |-> <<>>],
      [volumes |-> <<>>,                       envFrom |-> << <<"myapp-tls">> >>, env |-> <<>>],
      [volumes |-> <<>>,                       envFrom |-> << <<"other-tls">> >>, env |-> << <<"myapp-tls">> >>],
      [volumes |-> <<>>,                       envFrom |-> <<>>,                 env |-> << <<"other-tls">> >>] }

DeploymentChoices ==
    {DeploymentObject(ns, "workload", sh.volumes, sh.envFrom, sh.env) :
        ns \in {"default", "other"}, sh \in DeploymentShapes}

Named(deps) == [i \in DOMAIN deps |-> [deps[i] EXCEPT !.name = Hex(i)]]

InitWorkload ==
    /\ now = MaxProbeNow
    /\ cert = ActiveCertificate(TRUE)
    /\ secrets = {}
    /\ deployments \in {Named(deps) : deps \in [1 .. MaxDeployments -> DeploymentChoices]}
    /\ attempts = 0
    /\ issued = NoIssuance
    /\ ret = NoReturn
    /\ wake = NilTime
    /\ probe = NoProbe
    /\ proc = NoProc

CallRestartDeployments ==
    \E listFails \in BOOLEAN, failing \in SUBSET (DOMAIN deployments) :
        LET r == restartDeployments(deployments, cert, now, listFails, failing)
        IN  /\ probe.op = "none"
            /\ deployments' = r.store
            /\ probe' = [op |-> "restartDeployments",
                         before |-> deployments,
                         listFails |-> listFails,
                         failing |-> failing,
                         err |-> r.err,
                         restartedCount |-> r.restartedCount,
                         called |-> r.called]
            /\ UNCHANGED <<now, cert, secrets, attempts, issued, ret, wake, proc>>

NextWorkload == CallRestartDeployments

SpecWorkload == InitWorkload /\ [][NextWorkload]_vars

----------------------------------------------------------------------------
(* The certificate generator called directly: the duration string and the
   clock are drawn by the initial state, the serial number and the failure
   of the random source by the call. *)

InitGenerator ==
    /\ now \in 0 .. MaxProbeNow
    /\ cert \in {CertificateObject(d, "1h", FALSE, <<certificateFinalizer>>) :
                    d \in DurationStrings}
    /\ secrets = {}
    /\ deployments = SampleDeployments
    /\ attempts = 0
    /\ issued = NoIssuance
    /\ ret = NoReturn
    /\ wake = NilTime
    /\ probe = NoProbe
    /\ proc = NoProc

CallGenerateCertificate ==
    \E entropyFails \in BOOLEAN :
        LET gen == generateCertificate(cert, now, attempts + 1, entropyFails)
        IN  /\ attempts < MaxAttempts
            /\ attempts' = IF gen.err = NoError THEN attempts + 1 ELSE attempts
            /\ probe' = [op |-> "generateCertificate",
                         err |-> gen.err,
                         certPEM |-> gen.certPEM,
                         keyPEM |-> gen.keyPEM,
                         notBefore |-> gen.notBefore,
                         notAfter |-> gen.notAfter,
                         serialNumber |-> gen.serialNumber]
            /\ UNCHANGED <<now, cert, secrets, deployments, issued, ret, wake, proc>>

NextGenerator == CallGenerateCertificate

SpecGenerator == InitGenerator /\ [][NextGenerator]_vars

----------------------------------------------------------------------------
(* Two invocations of Reconcile, for two certificates of one namespace,
   running in parallel over the same store.  Each store call is one step.
   The store keeps a resourceVersion per object; an Update that carries
   another resourceVersion than the stored one is refused with Conflict, a
   Create of a name that exists with AlreadyExists.  Both certificates have
   the finalizer and no issuance yet, so each invocation goes through lines
   222-296.  proc.r[i] holds invocation i's position (pc) and locals:
     gen        what generateCertificate returned
     got        existingSecret as read by r.Get with its resourceVersion,
                or <<>>
     items, k   deployments.Items as read by r.List, and the loop index
     conflicts  the objects whose Update was refused with Conflict
     applied    the objects whose write the store accepted
     err        the error Reconcile returned *)

Reconcilers == {1, 2}

SecretNames == {"myapp-tls", "other-tls"}

ConflictCertificate(name, secretName) ==
    [ActiveCertificate(TRUE) EXCEPT !.name = name, !.spec.secretName = secretName]

(* One workload uses both secrets, one only the second *)
ConflictDeployments ==
    << DeploymentObject("default", "web", << <<"myapp-tls">> >>, << <<"other-tls">> >>, <<>>),
       DeploymentObject("default", "batch", <<>>, << <<"other-tls">> >>, <<>>) >>

StartOf(c) ==
    [pc |-> "secretGet", cert |-> c, gen |-> <<>>, got |-> <<>>, items |-> <<>>, k |-> 1,
     restartedCount |-> 0, conflicts |-> {}, applied |-> {}, err |-> NoError]

InitConflict ==
    /\ now = 0
    /\ cert = ActiveCertificate(TRUE)
    /\ secrets \in {{}, {ForeignSecret(<<>>)}}
    /\ deployments = ConflictDeployments
    /\ attempts = 0
    /\ issued = NoIssuance
    /\ ret = NoReturn
    /\ wake = NilTime
    /\ probe = NoProbe
    /\ \E second \in SecretNames :
          proc = [secretVersion |-> [n \in SecretNames |-> 1],
                  deployVersion |-> [i \in DOMAIN ConflictDeployments |-> 1],
                  r |-> << StartOf(ConflictCertificate("certificate-sample", "myapp-tls")),
                           StartOf(ConflictCertificate("certificate-other", second)) >>]

(* Lines 225 and 383-406: generateCertificate, the new Secret object, and
   r.Get of the existing one *)
SecretGet(i) ==
    LET me  == proc.r[i]
        gen == generateCertificate(me.cert, now, attempts + 1, FALSE)
        got == GetSecret(secrets, me.cert.namespace, me.cert.spec.secretName)
    IN  /\ me.pc = "secretGet"
        /\ attempts' = attempts + 1
        /\ proc' = [proc EXCEPT
              !.r[i].gen = <<gen>>,
              !.r[i].got = IF got = <<>> THEN <<>>
                           ELSE <<[obj |-> got[1],
                                   resourceVersion |->
                                       proc.secretVersion[me.cert.spec.secretName]]>>,
              !.r[i].pc = "secretWrite"]
        /\ UNCHANGED <<now, cert, secrets, deployments, issued, ret, wake, probe>>

(* Lines 408-418 and 243-280: r.Create or r.Update of the secret; on an
   error the failure condition is stored and Reconcile returns the error, on
   success the status of the issuance is stored *)
SecretWrite(i) ==
    LET me     == proc.r[i]
        c      == me.cert
        gen    == me.gen[1]
        name   == c.spec.secretName
        fresh  == [namespace |-> c.namespace, name |-> name,
                   type |-> "kubernetes.io/tls",
                   data |-> TLSData(gen.certPEM, gen.keyPEM),
                   labels |-> ManagingLabels(c),
                   annotations |-> EmptyMap,
                   ownerReferences |-> <<>>]
        secret == SetControllerReference(c, fresh).obj
        stale  == me.got # <<>> /\ me.got[1].resourceVersion # proc.secretVersion[name]
        r      == IF me.got = <<>> THEN CreateSecret(secrets, secret)
                  ELSE IF stale THEN [err |-> "Conflict", store |-> secrets]
                  ELSE UpdateSecret(secrets, [me.got[1].obj EXCEPT !.data = secret.data,
                                                                   !.labels = secret.labels])
    IN  /\ me.pc = "secretWrite"
        /\ secrets' = r.store
        /\ proc' = IF r.err # NoError
                   THEN [proc EXCEPT
                           !.r[i].cert.status = SecretFailedStatus(c, gen, now),
                           !.r[i].conflicts = IF stale THEN @ \cup {<<"Secret", name>>} ELSE @,
                           !.r[i].err = r.err,
                           !.r[i].pc = "returned"]
                   ELSE [proc EXCEPT
                           !.secretVersion[name] = @ + 1,
                           !.r[i].cert.status = IssuedStatus(c, gen, now),
                           !.r[i].applied = @ \cup {<<"Secret", name>>},
                           !.r[i].pc = "list"]
        /\ UNCHANGED <<now, cert, deployments, attempts, issued, ret, wake, probe>>

(* Lines 461-464: r.List of the namespace's deployments *)
List(i) ==
    LET me == proc.r[i]
    IN  /\ me.pc = "list"
        /\ proc' = [proc EXCEPT
              !.r[i].items =
                  [k \in DOMAIN ListDeployments(deployments, me.cert.namespace) |->
                      LET pos == ListDeployments(deployments, me.cert.namespace)[k]
                      IN  [pos |-> pos, obj |-> deployments[pos],
                           resourceVersion |-> proc.deployVersion[pos]]],
              !.r[i].k = 1,
              !.r[i].pc = "restart"]
        /\ UNCHANGED <<now, cert, secrets, deployments, attempts, issued, ret, wake, probe>>

(* Lines 467-486: one round of the loop; a refused Update is logged and the
   loop continues.  Lines 488-301: after the last item Reconcile returns *)
RestartNext(i) ==
    LET me   == proc.r[i]
        item == me.items[me.k]
        marked == [item.obj EXCEPT !.annotations =
                      MapPut(@, RestartedAtAnnotation, FormatRFC3339(now))]
        stale == item.resourceVersion # proc.deployVersion[item.pos]
    IN  /\ me.pc = "restart"
        /\ IF me.k > Len(me.items)
           THEN /\ proc' = [proc EXCEPT !.r[i].pc = "returned"]
                /\ UNCHANGED deployments
           ELSE IF ~deploymentUsesSecret(item.obj, me.cert.spec.secretName)
           THEN /\ proc' = [proc EXCEPT !.r[i].k = @ + 1]
                /\ UNCHANGED deployments
           ELSE IF stale
           THEN /\ proc' = [proc EXCEPT
                      !.r[i].k = @ + 1,
                      !.r[i].conflicts = @ \cup {<<"Deployment", item.obj.name>>}]
                /\ UNCHANGED deployments
           ELSE /\ deployments' = [deployments EXCEPT ![item.pos] = marked]
                /\ proc' = [proc EXCEPT
                      !.deployVersion[item.pos] = @ + 1,
                      !.r[i].k = @ + 1,
                      !.r[i].restartedCount = @ + 1,
                      !.r[i].applied = @ \cup {<<"Deployment", item.obj.name>>}]
        /\ UNCHANGED <<now, cert, secrets, attempts, issued, ret, wake, probe>>

NextConflict ==
    \E i \in Reconcilers : SecretGet(i) \/ SecretWrite(i) \/ List(i) \/ RestartNext(i)

SpecConflict == InitConflict /\ [][NextConflict]_vars

----------------------------------------------------------------------------
(* Properties *)

Range(seq) == {seq[i] : i \in DOMAIN seq}

(* C1: under the scheduler that wakes Reconcile exactly when the returned
   delay elapses, and without failures, the clock never reaches the
   not-after of the issuance recorded for an active, non-deleting
   certificate: it is re-issued before. *)
NeverExpiresUnrenewed ==
    (cert.exists /\ ~cert.deleting /\ cert.status.notAfter # NilTime)
        => now < cert.status.notAfter[1]

(* C2: in every persisted status with renewalTime and notAfter both set,
   renewalTime is strictly less than notAfter. *)
RenewalTimeBeforeNotAfter ==
    (cert.status.renewalTime # NilTime /\ cert.status.notAfter # NilTime)
        => cert.status.renewalTime[1] < cert.status.notAfter[1]

(* C3: the issuance fields of the persisted status are all unset or are
   exactly the fields of one successful issuance, the last one whose status
   write succeeded; a failed Reconcile leaves them as they were. *)
StatusFromOneIssuance ==
    IssuanceFields(cert.status) = issued

(* C3 witness: a second issuance attempt failed at the status write after
   its secret write, and the status still holds the first issuance. *)
FailedRenewalKeepsIssuance ==
    /\ ret.path \in {"secretFailed", "statusFailed"}
    /\ attempts = 2
    /\ cert.status.serialNumber = Hex(1)
    /\ cert.status.notBefore # NilTime

(* C4 as stated: a Reconcile of a certificate with the finalizer present and
   the deletion timestamp set makes exactly one update of the certificate,
   which removes the finalizer, no other write, and returns without error
   and without a requeue delay. *)
DeletionFlowAlwaysSucceeds ==
    (ret.entry.exists /\ ret.entry.finalizer /\ ret.entry.deleting)
        => /\ ret.calls = [NoCalls EXCEPT !.certUpdate = 1]
           /\ ~ContainsFinalizer(cert, certificateFinalizer)
           /\ ret.err = NoError
           /\ ret.requeueAfter = 0
           /\ ~ret.requeue

(* C4 amended: such a Reconcile makes no secret, status or workload write and
   at most one update of the certificate; when the certificate is loaded and
   that update succeeds, it is exactly one update, the finalizer is removed
   and the result is no error and no requeue; when the Get or the update
   fails, the error is returned and the finalizer stays. *)
DeletionFlow ==
    (ret.entry.exists /\ ret.entry.finalizer /\ ret.entry.deleting)
        => /\ ret.calls.statusUpdate = 0
           /\ ret.calls.secretWrite = 0
           /\ ret.calls.deployUpdate = 0
           /\ ret.requeueAfter = 0
           /\ ~ret.requeue
           /\ \/ /\ ret.err = NoError
                 /\ ret.calls.certUpdate = 1
                 /\ ~ContainsFinalizer(cert, certificateFinalizer)
              \/ /\ ret.err # NoError
                 /\ ret.calls.certUpdate <= 1
                 /\ ContainsFinalizer(cert, certificateFinalizer)

(* C4 witness: the finalizer was removed from a certificate under deletion
   that had it. *)
FinalizerRemovedOnDeletion ==
    /\ ret.entry.exists /\ ret.entry.finalizer /\ ret.entry.deleting
    /\ ret.path = "finalizerRemoved"
    /\ ret.calls.certUpdate = 1

(* C5: NeedsRenewal is true when no renewal time is recorded, true at every
   clock reading at or after the renewal time, the renewal time itself
   included, and false strictly before it. *)
NeedsRenewalAtOrAfterRenewalTime ==
    probe.op = "needsRenewal"
        => (probe.result <=> (\/ cert.status.renewalTime = NilTime
                              \/ now >= cert.status.renewalTime[1]))

(* C6: the requeue delay is 1 minute without a recorded renewal time, 1
   minute when remaining = renewalTime - now is negative, remaining / 2 when
   0 <= remaining < 1 hour, and remaining - 1 hour when remaining >= 1 hour. *)
RequeueDelayCases ==
    probe.op = "getRequeueTime"
        => IF cert.status.renewalTime = NilTime THEN probe.result = 1
           ELSE LET remaining == cert.status.renewalTime[1] - now
                IN  /\ remaining < 0 => probe.result = 1
                    /\ (0 <= remaining /\ remaining < 60) => 2 * probe.result \in {remaining, remaining - 1}
                    /\ remaining >= 60 => probe.result = remaining - 60
                    /\ remaining = 30 => probe.result = 15
                    /\ remaining = 300 => probe.result = 240
                    /\ remaining = 0 - 60 => probe.result = 1

(* C6 witness: five hours remain and the delay is four hours. *)
RequeueFourHoursOfFive ==
    /\ probe.op = "getRequeueTime"
    /\ cert.status.renewalTime = At(now + 300)
    /\ probe.result = 240

(* C7: after a successful synchronization, on the create path and on the
   update path alike, the secret of the name holds exactly the given
   payload, exactly the two managing labels, and an owner reference to the
   certificate. *)
SyncedSecretIsOwned ==
    (probe.op = "createOrUpdateSecret" /\ probe.err = NoError)
        => \E s \in secrets :
              /\ s.namespace = cert.namespace
              /\ s.name = cert.spec.secretName
              /\ DOMAIN s.data = {"tls.crt", "tls.key"}
              /\ s.data["tls.crt"] = probe.certPEM
              /\ s.data["tls.key"] = probe.keyPEM
              /\ DOMAIN s.labels = {"app.kubernetes.io/managed-by", "cert.example.com/certificate"}
              /\ s.labels["app.kubernetes.io/managed-by"] = "certificate-operator"
              /\ s.labels["cert.example.com/certificate"] = cert.name
              /\ \E r \in Range(s.ownerReferences) :
                    r.kind = "Certificate" /\ r.name = cert.name

(* C8: a second successful synchronization with the inputs of the one just
   before it leaves the store as the first one left it, and the store holds
   at most one secret of a namespace and name. *)
SecretSyncIdempotent ==
    /\ (probe.op = "createOrUpdateSecret" /\ probe.repeated /\ probe.err = NoError)
          => secrets = probe.storeBefore
    /\ \A s1, s2 \in secrets :
          (s1.namespace = s2.namespace /\ s1.name = s2.name) => s1 = s2

(* C8 witness: the first call created the secret and the second call, with
   the same inputs, succeeded. *)
SecretSyncedTwice ==
    /\ probe.op = "createOrUpdateSecret"
    /\ probe.repeated
    /\ probe.err = NoError
    /\ probe.existed
    /\ \E s \in secrets : s.name = cert.spec.secretName /\ s.type = "kubernetes.io/tls"

(* A workload references the secret through a secret-backed volume, an
   envFrom secret reference or an env variable sourced from a key of it *)
ReferencesSecret(deploy, secretName) ==
    \/ <<secretName>> \in Range(deploy.volumes)
    \/ \E container \in Range(deploy.containers) :
          \/ <<secretName>> \in Range(container.envFrom)
          \/ <<secretName>> \in Range(container.env)

MatchingWorkloads(deps) ==
    {i \in DOMAIN deps : /\ deps[i].namespace = cert.namespace
                         /\ ReferencesSecret(deps[i], cert.spec.secretName)}

Restarted(before, after) ==
    /\ after.annotations = MapPut(before.annotations, RestartedAtAnnotation, FormatRFC3339(now))
    /\ [after EXCEPT !.annotations = before.annotations] = before

(* C9: the correlator writes the restartedAt annotation on exactly the
   workloads of the certificate's namespace that reference the secret; the
   others, and those of other namespaces, are left unchanged. *)
RestartsExactlyReferencingWorkloads ==
    probe.op = "restartDeployments"
        => /\ \A i \in DOMAIN deployments \ MatchingWorkloads(probe.before) :
                 deployments[i] = probe.before[i] /\ i \notin probe.called
           /\ (~probe.listFails /\ probe.failing = {})
                 => \A i \in MatchingWorkloads(probe.before) :
                       Restarted(probe.before[i], deployments[i])

(* C9 witness: one workload referencing the secret through a volume and one
   through envFrom were annotated, a third one not referencing it was not. *)
TwoOfThreeRestarted ==
    /\ probe.op = "restartDeployments"
    /\ probe.restartedCount = 2
    /\ \E i, j, k \in DOMAIN deployments :
          /\ <<"myapp-tls">> \in Range(probe.before[i].volumes)
          /\ <<"myapp-tls">> \in Range(probe.before[j].containers[1].envFrom)
          /\ i # j
          /\ RestartedAtAnnotation \in DOMAIN deployments[i].annotations
          /\ RestartedAtAnnotation \in DOMAIN deployments[j].annotations
          /\ probe.before[k].namespace = "default"
          /\ deployments[k] = probe.before[k]

(* C10: a failed update of one matching workload does not stop the loop:
   every matching workload is attempted, those whose update succeeds are
   annotated, and the count is the number of matching workloads whose update
   succeeded. *)
RestartContinuesAfterFailure ==
    (probe.op = "restartDeployments" /\ ~probe.listFails)
        => LET matching == MatchingWorkloads(probe.before)
           IN  /\ probe.called = matching
               /\ \A i \in matching \ probe.failing :
                     Restarted(probe.before[i], deployments[i])
               /\ \A i \in matching \cap probe.failing :
                     deployments[i] = probe.before[i]
               /\ probe.restartedCount = Cardinality(matching \ probe.failing)
               /\ probe.err = NoError

(* C10 witness: the update of a matching workload failed and a matching
   workload later in the list was still annotated. *)
RestartedAfterAFailure ==
    /\ probe.op = "restartDeployments"
    /\ \E i, j \in probe.called :
          /\ i < j
          /\ i \in probe.failing
          /\ j \notin probe.failing
          /\ RestartedAtAnnotation \in DOMAIN deployments[j].annotations
    /\ probe.restartedCount >= 1

(* C11: whenever the generator accepts the spec (duration string empty or
   parseable), its output has notBefore < notAfter and notAfter - notBefore
   equal to the parsed duration, 2160h when the duration is unset. *)
GeneratedValidityWindow ==
    (probe.op = "generateCertificate" /\ probe.err = NoError)
        => /\ probe.notBefore < probe.notAfter
           /\ probe.notAfter - probe.notBefore =
                 (IF cert.spec.duration = "" THEN 2160 * 60
                  ELSE ParseDuration(cert.spec.duration).d)

(* C16: a Reconcile that loads an active certificate (finalizer present, not
   under deletion) for which needsRenewal is false makes no write call,
   leaves the certificate, the secrets and the workloads as they were, and
   returns no error and the requeue delay computed from status.renewalTime. *)
NoRenewalNoWrite ==
    (/\ ret.entry.exists /\ ret.entry.finalizer /\ ~ret.entry.deleting
     /\ ~ret.entry.needsRenewal
     /\ ret.path # "getFailed" /\ ret.path # "none")
        => /\ ret.path = "upToDate"
           /\ ret.calls = [certUpdate |-> 0, statusUpdate |-> 0,
                           secretWrite |-> 0, deployUpdate |-> 0]
           /\ ret.same.cert /\ ret.same.secrets /\ ret.same.deployments
           /\ ret.err = NoError
           /\ ret.requeueAfter =
                (LET remaining == cert.status.renewalTime[1] - now
                 IN  IF remaining < 60 THEN remaining \div 2 ELSE remaining - 60)

(* C16 witness: an invocation found an issued certificate up to date and
   asked to be woken later. *)
FoundUpToDate ==
    /\ ret.path = "upToDate"
    /\ ret.entry.finalizer /\ ~ret.entry.deleting
    /\ ret.calls = NoCalls
    /\ ret.requeueAfter > 0
    /\ cert.status.serialNumber # ""

(* The Ready condition as the store holds it *)
ReadyCondition(c) ==
    {[status |-> c.status.conditions[i].status, reason |-> c.status.conditions[i].reason] :
        i \in {j \in DOMAIN c.status.conditions :
                  c.status.conditions[j].type = typeReadyCert}}

(* C12 as stated: when generateCertificate fails in a Reconcile in which
   renewal is due, Reconcile returns the error, the stored Ready condition is
   False with reason GenerationFailed, no secret or workload write is made
   and the status issuance fields do not change. *)
GenerationFailurePersisted ==
    ret.path = "generationFailed"
        => /\ ret.entry.needsRenewal
           /\ ret.err # NoError
           /\ ReadyCondition(cert) = {[status |-> "False", reason |-> "GenerationFailed"]}
           /\ ret.calls.secretWrite = 0 /\ ret.calls.deployUpdate = 0
           /\ ret.same.secrets /\ ret.same.deployments
           /\ ret.same.issuance

(* C12 amended: the same, with the condition stored only when the
   Status().Update that carries it is accepted; when that update fails the
   error is logged and the stored certificate is as it was. *)
GenerationFailureHandled ==
    ret.path = "generationFailed"
        => /\ ret.entry.needsRenewal
           /\ ret.err # NoError
           /\ ret.calls.statusUpdate = 1
           /\ ret.calls.secretWrite = 0 /\ ret.calls.deployUpdate = 0
           /\ ret.requeueAfter = 0
           /\ ret.same.secrets /\ ret.same.deployments
           /\ ret.same.issuance
           /\ IF ret.condErr = NoError
              THEN ReadyCondition(cert) =
                      {[status |-> "False", reason |-> "GenerationFailed"]}
              ELSE ret.same.status

(* C12 witness: a renewal of an issued certificate failed in the generator
   and the failure condition was stored over Ready = True. *)
GenerationFailedOnRenewal ==
    /\ ret.path = "generationFailed"
    /\ ret.condErr = NoError
    /\ cert.status.serialNumber # ""
    /\ ~ret.same.status
    /\ ReadyCondition(cert) = {[status |-> "False", reason |-> "GenerationFailed"]}

(* C13 as stated: when createOrUpdateSecret fails after a successful
   generation, Reconcile returns the error, the stored Ready condition is
   False with reason SecretUpdateFailed, the status issuance fields keep
   their values, no workload is annotated, and renewal is still due. *)
SecretFailurePersisted ==
    ret.path = "secretFailed"
        => /\ ret.err # NoError
           /\ ReadyCondition(cert) = {[status |-> "False", reason |-> "SecretUpdateFailed"]}
           /\ ret.same.issuance
           /\ ret.calls.deployUpdate = 0 /\ ret.same.deployments
           /\ needsRenewal(cert, now)

(* C13 amended: the same, with the condition stored only when the
   Status().Update that carries it is accepted; when that update fails the
   stored status is as it was. *)
SecretFailureHandled ==
    ret.path = "secretFailed"
        => /\ ret.err # NoError
           /\ ret.requeueAfter = 0
           /\ ret.calls.statusUpdate = 1
           /\ ret.same.issuance
           /\ ret.calls.deployUpdate = 0 /\ ret.same.deployments
           /\ ret.same.secrets
           /\ cert.exists /\ ~cert.deleting
           /\ ContainsFinalizer(cert, certificateFinalizer)
           /\ needsRenewal(cert, now)
           /\ IF ret.condErr = NoError
              THEN ReadyCondition(cert) =
                      {[status |-> "False", reason |-> "SecretUpdateFailed"]}
              ELSE ret.same.status

(* C13 witness: the secret write of a renewal was refused, the failure
   condition replaced Ready = True and the first issuance is still the one in
   the status. *)
SecretFailedOnRenewal ==
    /\ ret.path = "secretFailed"
    /\ ret.calls.secretWrite = 1
    /\ ret.condErr = NoError
    /\ ~ret.same.status
    /\ cert.status.serialNumber = Hex(1)
    /\ ReadyCondition(cert) = {[status |-> "False", reason |-> "SecretUpdateFailed"]}

(* The serial numbers of the certificates held by the secrets named
   spec.secretName in the certificate's namespace *)
SecretSerials ==
    {Hex(s.data["tls.crt"][2]) :
        s \in {x \in secrets : x.namespace = cert.namespace
                               /\ x.name = cert.spec.secretName}}

(* C14: a Reconcile calls restartDeployments only with
   spec.restartDeployments set and after the secret write and the status
   write of the new issuance have succeeded; whatever fails inside it
   (listing, or updating a workload), Reconcile returns no error and the
   requeue delay, and the persisted status is that of the new issuance.
   A Reconcile that does not call it sends no workload update. *)
CorrelatorAfterPersistence ==
    /\ ret.restartRan
          => /\ cert.spec.restartDeployments
             /\ ret.path = "issued"
             /\ ret.calls.secretWrite = 1 /\ ret.calls.statusUpdate = 1
             /\ SecretSerials = {cert.status.serialNumber}
             /\ IssuanceFields(cert.status) = issued
             /\ cert.status.lastRenewalTime = At(now)
             /\ ReadyCondition(cert) = {[status |-> "True", reason |-> "CertificateIssued"]}
             /\ ret.err = NoError
             /\ ret.requeueAfter = getRequeueTime(cert, now)
             /\ ret.restartedCount <= ret.calls.deployUpdate
    /\ ~ret.restartRan
          => /\ ret.calls.deployUpdate = 0
             /\ ret.restartErr = NoError
             /\ ret.same.deployments

(* C14 witness: listing the workloads failed after the issuance was
   persisted, and Reconcile returned without error. *)
CorrelatorFailedAfterIssuance ==
    /\ ret.restartRan
    /\ ret.restartErr # NoError
    /\ ret.err = NoError
    /\ cert.status.serialNumber # ""
    /\ ret.same.deployments

(* C15: Reconcile sends no Update that adds the finalizer to a certificate
   whose deletion timestamp is set and whose finalizer is absent. *)
NoFinalizerAddedUnderDeletion ==
    (ret.entry.exists /\ ret.entry.deleting /\ ~ret.entry.finalizer)
        => ret.calls.certUpdate = 0

(* C19: a Reconcile of an active certificate that returns without error
   returns a strictly positive requeue delay. *)
RequeueDelayPositive ==
    (/\ ret.path \in {"upToDate", "issued"}
     /\ ret.err = NoError)
        => ret.requeueAfter > 0

(* C18: whenever a Reconcile of an active certificate completes without
   failure, whatever earlier invocations were cut off after (the finalizer
   update, the secret write, the status write, a workload update), the store
   holds the finalizer exactly once, Ready = True with reason
   CertificateIssued, exactly one secret of the certificate's name, with at
   most one owner reference and the certificate of the status, and status
   issuance fields that all come from one issuance. *)
ResumeReachesIssuedShape ==
    (/\ ret.path \in {"upToDate", "issued"}
     /\ ret.err = NoError)
        => /\ Cardinality({i \in DOMAIN cert.finalizers :
                              cert.finalizers[i] = certificateFinalizer}) = 1
           /\ ReadyCondition(cert) = {[status |-> "True", reason |-> "CertificateIssued"]}
           /\ Cardinality({i \in DOMAIN cert.status.conditions :
                              cert.status.conditions[i].type = typeReadyCert}) = 1
           /\ Cardinality({s \in secrets : s.namespace = cert.namespace
                                           /\ s.name = cert.spec.secretName}) = 1
           /\ \A s \in secrets : Len(s.ownerReferences) <= 1
           /\ SecretSerials = {cert.status.serialNumber}
           /\ IssuanceFields(cert.status) = issued
           /\ cert.status.serialNumber # ""

(* C18 witness: at time 0 the second generated certificate is the issued
   one: an earlier invocation added the finalizer and drew serial 01, was cut
   off at the secret write or at the status write, and this invocation
   completed. *)
ResumedAfterCutOff ==
    /\ ret.path = "issued"
    /\ ret.err = NoError
    /\ ret.entry.finalizer
    /\ now = 0
    /\ cert.spec.duration = "2h" /\ cert.spec.renewBefore = "1h"
    /\ cert.status.serialNumber = Hex(2)
    /\ SecretSerials = {Hex(2)}

(* C20: with nobody but the operator writing the secret, whenever the stored
   status has Ready = True and a serial number, the secret named
   spec.secretName holds the certificate of that serial number. *)
ReadySecretMatchesStatus ==
    (/\ cert.exists
     /\ ReadyCondition(cert) = {[status |-> "True", reason |-> "CertificateIssued"]}
     /\ cert.status.serialNumber # "")
        => SecretSerials = {cert.status.serialNumber}

(* C17: when an invocation has returned, every write of it that the store
   refused with Conflict has been re-applied by that invocation. *)
ConflictingWritesApplied ==
    \A i \in DOMAIN proc.r :
        proc.r[i].pc = "returned" => proc.r[i].conflicts \subseteq proc.r[i].applied

(* C21: after a Reconcile of an active certificate that returns without
   error, a secret named spec.secretName exists in the certificate's
   namespace. *)
SecretExistsAfterReconcile ==
    (/\ ret.path \in {"upToDate", "issued"}
     /\ ret.err = NoError)
        => \E s \in secrets : /\ s.namespace = cert.namespace
                              /\ s.name = cert.spec.secretName

====
